---------------------------- MODULE Spec2Model ----------------------------
(***************************************************************************)
(* Model of app.py (ThinkHelper): the JSON file helpers, the usage store   *)
(* with its lock, the autocomplete index with its mtime-driven reload, the *)
(* two suggestion lookups, the PLUS consent flow and the uid resolution.   *)
(*                                                                         *)
(* Text is a sequence of one-character strings, so that lower(), strip(),  *)
(* startswith(), "in" and the token regex are computed, not assumed.       *)
(* A file's content is a sequence of written chunks; json.dump writes the  *)
(* chunks of DumpJSON one by one and json.load accepts a content only if   *)
(* it is a whole document.                                                 *)
(***************************************************************************)
EXTENDS Integers, Sequences, FiniteSets, TLC

(***************************************************************************)
(* Bounds of the model                                                     *)
(***************************************************************************)
MaxSaves == 2      \* save_json calls of the writer in SpecFS
MaxClock == 3      \* last value of the clock (time.time(), in model ticks)

(***************************************************************************)
(* Text helpers                                                            *)
(***************************************************************************)
Take(s, n) == SubSeq(s, 1, IF n < Len(s) THEN n ELSE Len(s))

Range(s) == {s[i] : i \in 1..Len(s)}

\* str.lower() on one character
LowerChar(c) ==
    CASE c = "A" -> "a"
      [] c = "B" -> "b"
      [] OTHER -> c

Lower(s) == [i \in 1..Len(s) |-> LowerChar(s[i])]

IsSpace(c) == c = " "

RECURSIVE LStrip(_)
LStrip(s) == IF s # <<>> /\ IsSpace(s[1]) THEN LStrip(Tail(s)) ELSE s

RECURSIVE RStrip(_)
RStrip(s) ==
    IF s # <<>> /\ IsSpace(s[Len(s)]) THEN RStrip(SubSeq(s, 1, Len(s) - 1)) ELSE s

\* str.strip()
Strip(s) == RStrip(LStrip(s))

\* str.startswith
StartsWith(p, b) == Len(b) <= Len(p) /\ SubSeq(p, 1, Len(b)) = b

\* "b in p" on strings
Contains(p, b) ==
    \E i \in 0..(Len(p) - Len(b)) : SubSeq(p, i + 1, i + Len(b)) = b

(***************************************************************************)
(* JSON documents                                                          *)
(***************************************************************************)
\* a parsed document: None (the document null) or a dict with its items
None == [kind |-> "None"]

Dict(items) == [kind |-> "dict", items |-> items]

\* json.dump(data, f): the chunks written, in order
DumpJSON(data) == << "{", data, "}" >>

\* the document `null`
NullDoc == << "null" >>

\* json.load succeeds only on a whole document
WellFormed(content) ==
    \/ content = NullDoc
    \/ Len(content) = 3 /\ content[1] = "{" /\ content[3] = "}"

ParseJSON(content) == IF content = NullDoc THEN None ELSE content[2]

\* a load_json whose except branch returns None, whatever the default
json_load_or_none(content, default) ==
    IF WellFormed(content) THEN ParseJSON(content) ELSE [kind |-> "None"]

\* the try/except of load_json around json.load
json_load_or_default(content, default) ==
    IF WellFormed(content) THEN ParseJSON(content) ELSE default


(***************************************************************************)
(* Tokens: _token_re = [A-Za-z0-9...]+(?:[._-][A-Za-z0-9...]+)*            *)
(***************************************************************************)
IsAlnum(c) == c \in {"a", "b", "c", "A", "B"}

IsJoiner(c) == c \in {".", "_", "-"}

\* index of the last character of the run [A-Za-z0-9...]+ that starts at i
RECURSIVE AlnumRun(_, _)
AlnumRun(s, i) ==
    IF i + 1 <= Len(s) /\ IsAlnum(s[i + 1]) THEN AlnumRun(s, i + 1) ELSE i

\* index of the last character of the (greedy) match that starts at i
RECURSIVE MatchEnd(_, _)
MatchEnd(s, e) ==
    IF e + 2 <= Len(s) /\ IsJoiner(s[e + 1]) /\ IsAlnum(s[e + 2])
    THEN MatchEnd(s, AlnumRun(s, e + 2))
    ELSE e

\* _token_re.findall(s), scanning from index i
RECURSIVE FindAll(_, _)
FindAll(s, i) ==
    IF i > Len(s) THEN <<>>
    ELSE IF IsAlnum(s[i])
         THEN LET e == MatchEnd(s, AlnumRun(s, i))
              IN  << SubSeq(s, i, e) >> \o FindAll(s, e + 1)
         ELSE FindAll(s, i + 1)

_tokenize(s) == FindAll(Lower(s), 1)

\* toks[-n:] for n >= 1
_last_tokens(s, n) ==
    LET toks == FindAll(Lower(s), 1)
    IN  IF Len(toks) <= n THEN toks ELSE SubSeq(toks, Len(toks) - n + 1, Len(toks))

(***************************************************************************)
(* The index lookup: _blend_unique and suggest_words                       *)
(***************************************************************************)
RECURSIVE Flatten(_)
Flatten(lists) == IF lists = <<>> THEN <<>> ELSE Head(lists) \o Flatten(Tail(lists))

\* the two loops of _blend_unique over the elements still to visit
RECURSIVE BlendLoop(_, _, _, _)
BlendLoop(xs, seen, out, k) ==
    IF xs = <<>> THEN Take(out, k)
    ELSE IF Head(xs) \notin seen
         THEN LET out2 == Append(out, Head(xs))
              IN  IF Len(out2) >= k THEN out2
                  ELSE BlendLoop(Tail(xs), seen \cup {Head(xs)}, out2, k)
         ELSE BlendLoop(Tail(xs), seen, out, k)

\* a blend that does not skip what it has seen
_blend_no_dedup(lists, k) == Take(Flatten(lists), k)

_blend_unique(lists, k) == BlendLoop(Flatten(lists), {}, <<>>, k)

\* dict.get(key, default)
DictGet(d, key, default) == IF key \in DOMAIN d THEN d[key] ELSE default

EmptyResult == [completions |-> <<>>, next |-> <<>>, phrases |-> <<>>]

\* "not _ac": None and the empty dict are falsy
Falsy(ac) == ac.kind = "None" \/ DOMAIN ac.items = {}

\* the key f"{w1}\t{w2}"
TrigramKey(w1, w2) == w1 \o << "\t" >> \o w2

\* a next-word lookup that never consults the trigrams
NextWords_BigramOnly(ac, last2, k) ==
    IF last2 # <<>> THEN Take(DictGet(ac.items.bigram, last2[Len(last2)], <<>>), k)
    ELSE <<>>

\* the next-word part of suggest_words
NextWords(ac, last2, k) ==
    IF Len(last2) = 2
    THEN LET nxt == Take(DictGet(ac.items.trigram, TrigramKey(last2[1], last2[2]), <<>>), k)
         IN  IF Len(nxt) < k
             THEN _blend_unique(<< nxt, Take(DictGet(ac.items.bigram, last2[2], <<>>), k * 2) >>, k)
             ELSE nxt
    ELSE IF Len(last2) = 1
         THEN Take(DictGet(ac.items.bigram, last2[1], <<>>), k)
         ELSE <<>>

\* base = (pref or (last2[-1] if last2 else "")).lower()
PhraseBase(pref, last2) ==
    Lower(IF pref # <<>> THEN pref
          ELSE IF last2 # <<>> THEN last2[Len(last2)] ELSE <<>>)

\* the phrases part of suggest_words
Phrases(ac, base, k) ==
    IF base # <<>>
    THEN LET starts == Take(SelectSeq(ac.items.phrases, LAMBDA p : StartsWith(p, base)), k * 2)
         IN  IF Len(starts) < k
             THEN LET cont == Take(SelectSeq(ac.items.phrases, LAMBDA p : Contains(p, base)), k * 2)
                  IN  _blend_unique(<< starts, cont >>, k)
             ELSE Take(starts, k)
    ELSE <<>>

\* suggest_words after _load_ac_if_changed, on the cached index ac
suggest_words(ac, prefix, context, k) ==
    IF Falsy(ac) THEN EmptyResult
    ELSE LET pref  == Lower(prefix)
             last2 == _last_tokens(context, 2)
             compl == IF pref # <<>> THEN Take(DictGet(ac.items.prefix, pref, <<>>), k * 2)
                      ELSE <<>>
             nxt   == NextWords(ac, last2, k)
             phr   == Phrases(ac, PhraseBase(pref, last2), k)
         IN  [completions |-> Take(compl, k), next |-> Take(nxt, k),
              phrases |-> Take(phr, k)]

(***************************************************************************)
(* The document-driven lookup: suggest_from_doc                            *)
(***************************************************************************)
\* the keys of a counting dict, in insertion order
RECURSIVE Distinct(_)
Distinct(s) ==
    IF s = <<>> THEN <<>>
    ELSE LET d == Distinct(SubSeq(s, 1, Len(s) - 1))
         IN  IF s[Len(s)] \in Range(d) THEN d ELSE Append(d, s[Len(s)])

Count(x, s) == Cardinality({i \in 1..Len(s) : s[i] = x})

\* insert w into a list sorted by descending count, after its equals (stable)
RECURSIVE InsertByCount(_, _, _)
InsertByCount(sorted, w, all) ==
    IF sorted = <<>> THEN << w >>
    ELSE IF Count(Head(sorted), all) >= Count(w, all)
         THEN << Head(sorted) >> \o InsertByCount(Tail(sorted), w, all)
         ELSE << w >> \o sorted

RECURSIVE SortKeys(_, _)
SortKeys(keys, all) ==
    IF keys = <<>> THEN <<>>
    ELSE InsertByCount(SortKeys(SubSeq(keys, 1, Len(keys) - 1), all),
                       keys[Len(keys)], all)

\* [w for w, _ in sorted(freq.items(), key=lambda x: -x[1])]
ByFrequency(occurrences) == SortKeys(Distinct(occurrences), occurrences)

\* " ".join(toks)
RECURSIVE Join(_)
Join(toks) ==
    IF toks = <<>> THEN <<>>
    ELSE IF Len(toks) = 1 THEN toks[1]
         ELSE toks[1] \o << " " >> \o Join(Tail(toks))

\* the tokens that follow ctx's last two tokens (or its only token) in toks
Followers(toks, ctx) ==
    IF Len(ctx) >= 2
    THEN LET w1 == ctx[Len(ctx) - 1]
             w2 == ctx[Len(ctx)]
             hits == SelectSeq([i \in 1..Len(toks) |-> i],
                        LAMBDA i : i + 2 <= Len(toks) /\ toks[i] = w1 /\ toks[i + 1] = w2)
         IN  [j \in 1..Len(hits) |-> toks[hits[j] + 2]]
    ELSE IF Len(ctx) = 1
         THEN LET hits == SelectSeq([i \in 1..Len(toks) |-> i],
                             LAMBDA i : i + 1 <= Len(toks) /\ toks[i] = ctx[1])
              IN  [j \in 1..Len(hits) |-> toks[hits[j] + 1]]
         ELSE <<>>

\* for i in range(len(toks)-n+1): ... break
RECURSIVE PhraseInner(_, _, _, _, _, _)
PhraseInner(toks, n, i, phrases, pref, k) ==
    IF i + n > Len(toks) THEN phrases
    ELSE LET ph == Join(SubSeq(toks, i + 1, i + n))
         IN  IF Contains(ph, pref) /\ ph \notin Range(phrases)
             THEN LET p2 == Append(phrases, ph)
                  IN  IF Len(p2) >= k THEN p2
                      ELSE PhraseInner(toks, n, i + 1, p2, pref, k)
             ELSE PhraseInner(toks, n, i + 1, phrases, pref, k)

\* for n in (2, 3, 4): ... if len(phrases) >= k: break
RECURSIVE PhraseOuter(_, _, _, _, _)
PhraseOuter(toks, ns, phrases, pref, k) ==
    IF ns = <<>> THEN phrases
    ELSE LET p2 == PhraseInner(toks, Head(ns), 0, phrases, pref, k)
         IN  IF Len(p2) >= k THEN p2
             ELSE PhraseOuter(toks, Tail(ns), p2, pref, k)

suggest_from_doc(prefix, context, doc, k) ==
    LET toks == _tokenize(doc)
        pref == Lower(prefix)
    IN  IF toks = <<>> THEN EmptyResult
        ELSE [completions |->
                 Take(ByFrequency(IF pref # <<>>
                                  THEN SelectSeq(toks, LAMBDA t : StartsWith(t, pref))
                                  ELSE <<>>), k),
              next |-> Take(ByFrequency(Followers(toks, _tokenize(context))), k),
              phrases |->
                 IF pref # <<>> THEN PhraseOuter(toks, << 2, 3, 4 >>, <<>>, pref, k)
                 ELSE <<>>]

(***************************************************************************)
(* State                                                                   *)
(***************************************************************************)
VARIABLES
    dir,        \* SpecFS: directory, path -> inode (0: no such file)
    inodes,     \* SpecFS: inode -> content written so far
    wr,         \* SpecFS: the thread inside save_json
    rd,         \* SpecFS: the threads inside load_json
    committed,  \* SpecFS: data of the last completed save_json (NoFile: none)
    clock,      \* time.time(), in model ticks
    acFile,     \* the file AC_PATH: [exists, mtime, content]
    _ac,        \* the cached index (global _ac)
    _ac_mtime,  \* the mtime the cache was loaded at (global _ac_mtime)
    acReq,      \* the last /ac or suggest_words call, with the file it found
    acResp,     \* its answer
    usageFile,  \* the file USAGE_DB: [exists, content]
    USAGE_LOCK, \* the thread that holds the lock (NoOwner: free)
    th,         \* the request threads of /ask and /usage
    charges,    \* per uid, the times of the in-window charges charge_one reported
    session,    \* the client's Flask session (a signed cookie)
    cookies,    \* the client's other cookies
    consent,    \* whether the client's latest /plus/consent said agree
    httpReq,    \* the client's last request
    httpResp    \* the answer to it

fsVars == << dir, inodes, wr, rd, committed >>

acVars == << acFile, _ac, _ac_mtime, acReq, acResp >>

usageVars == << usageFile, USAGE_LOCK, th, charges >>

clientVars == << session, cookies, consent, httpReq, httpResp >>

vars == << fsVars, clock, acVars, usageVars, clientVars >>

(***************************************************************************)
(* save_json / load_json, step by step (SpecFS)                            *)
(***************************************************************************)
USAGE_DB == "usage.json"

\* a save_json that writes the file in place
TmpPath_InPlace(path) == path

\* save_json: tmp = path + ".tmp"
TmpPath(path) == path \o ".tmp"

FsPaths == {USAGE_DB, USAGE_DB \o ".tmp"}

Readers == {"r1", "r2"}

Inodes == 1..(Cardinality(Readers) + 2)

NoFile == "NoFile"

DEFAULT == "default"

DataVals == {"d1", "d2"}

\* an inode no directory entry and no open handle refers to
FreeIno ==
    CHOOSE i \in Inodes :
        /\ \A p \in FsPaths : dir[p] # i
        /\ \A r \in Readers : rd[r].ino # i
        /\ wr.ino # i

\* what load_json is to return for a path last saved with c
Expected(c) == IF c = NoFile THEN DEFAULT ELSE c

\* save_json: open(tmp, "w") creates the file, or truncates it in place
save_json_open(data) ==
    /\ wr.pc = "idle"
    /\ wr.n < MaxSaves
    /\ LET tmp == TmpPath(USAGE_DB)
           ino == IF dir[tmp] # 0 THEN dir[tmp] ELSE FreeIno
       IN  /\ dir' = [dir EXCEPT ![tmp] = ino]
           /\ inodes' = [inodes EXCEPT ![ino] = <<>>]
           /\ wr' = [wr EXCEPT !.pc = "write", !.data = data, !.ino = ino,
                               !.tmp = tmp]
    /\ UNCHANGED << rd, committed, clock, acVars, usageVars, clientVars >>

\* save_json: json.dump writes the document chunk by chunk
save_json_write ==
    /\ wr.pc = "write"
    /\ LET doc == DumpJSON(wr.data)
           n   == Len(inodes[wr.ino])
       IN  IF n < Len(doc)
           THEN /\ inodes' = [inodes EXCEPT ![wr.ino] = Append(@, doc[n + 1])]
                /\ wr' = wr
           ELSE /\ inodes' = inodes
                /\ wr' = [wr EXCEPT !.pc = "replace", !.ino = 0]
    /\ UNCHANGED << dir, rd, committed, clock, acVars, usageVars, clientVars >>

\* save_json: os.replace(tmp, path), one atomic rename
save_json_replace ==
    /\ wr.pc = "replace"
    /\ dir' = IF wr.tmp = USAGE_DB THEN dir
              ELSE [dir EXCEPT ![USAGE_DB] = dir[wr.tmp], ![wr.tmp] = 0]
    /\ committed' = wr.data
    /\ rd' = [r \in Readers |->
                IF rd[r].pc \in {"open", "read", "parse"}
                THEN [rd[r] EXCEPT !.seen = @ \cup {wr.data}] ELSE rd[r]]
    /\ wr' = [wr EXCEPT !.pc = "idle", !.n = @ + 1, !.tmp = ""]
    /\ UNCHANGED << inodes, clock, acVars, usageVars, clientVars >>

\* load_json: if not os.path.exists(path): return default
load_json_exists(r) ==
    /\ rd[r].pc = "idle"
    /\ rd' = [rd EXCEPT ![r] =
                IF dir[USAGE_DB] = 0
                THEN [@ EXCEPT !.pc = "done", !.res = DEFAULT,
                               !.seen = {Expected(committed)}]
                ELSE [@ EXCEPT !.pc = "open", !.res = "",
                               !.seen = {Expected(committed)}]]
    /\ UNCHANGED << dir, inodes, wr, committed, clock, acVars, usageVars,
                   clientVars >>

\* load_json: open(path, "r") binds the inode the name has now
load_json_open(r) ==
    /\ rd[r].pc = "open"
    /\ rd' = [rd EXCEPT ![r] =
                IF dir[USAGE_DB] = 0
                THEN [@ EXCEPT !.pc = "done", !.res = "FileNotFoundError"]
                ELSE [@ EXCEPT !.pc = "read", !.ino = dir[USAGE_DB], !.buf = <<>>]]
    /\ UNCHANGED << dir, inodes, wr, committed, clock, acVars, usageVars,
                   clientVars >>

\* load_json: json.load reads the open file to its end
load_json_read(r) ==
    /\ rd[r].pc = "read"
    /\ LET content == inodes[rd[r].ino]
           n == Len(rd[r].buf)
       IN  rd' = [rd EXCEPT ![r] =
                    IF n < Len(content)
                    THEN [@ EXCEPT !.buf = Append(@, content[n + 1])]
                    ELSE [@ EXCEPT !.pc = "parse", !.ino = 0]]
    /\ UNCHANGED << dir, inodes, wr, committed, clock, acVars, usageVars,
                   clientVars >>

\* load_json: try: return json.load(f) / except Exception: return default
load_json_parse(r) ==
    /\ rd[r].pc = "parse"
    /\ rd' = [rd EXCEPT ![r] =
                [@ EXCEPT !.pc = "done", !.buf = <<>>,
                          !.res = json_load_or_default(rd[r].buf, DEFAULT)]]
    /\ UNCHANGED << dir, inodes, wr, committed, clock, acVars, usageVars,
                   clientVars >>

\* the caller takes the result; the thread is free for the next load_json
load_json_return(r) ==
    /\ rd[r].pc = "done"
    /\ rd' = [rd EXCEPT ![r] = [@ EXCEPT !.pc = "idle", !.res = "", !.seen = {}]]
    /\ UNCHANGED << dir, inodes, wr, committed, clock, acVars, usageVars,
                   clientVars >>

IdleReader == [pc |-> "idle", ino |-> 0, buf |-> <<>>, res |-> "", seen |-> {}]

\* the state of the parts a specification does not use
FsIdle ==
    /\ wr = [pc |-> "idle", data |-> "", ino |-> 0, tmp |-> "", n |-> 0]
    /\ rd = [r \in Readers |-> IdleReader]
    /\ committed = NoFile
    /\ dir = [p \in FsPaths |-> 0]
    /\ inodes = [i \in Inodes |-> <<>>]

NoRequest == [op |-> "none"]

AbsentFile == [exists |-> FALSE, mtime |-> 0, content |-> <<>>]

AcIdle ==
    /\ acFile = AbsentFile
    /\ _ac = None
    /\ _ac_mtime = 0
    /\ acReq = NoRequest
    /\ acResp = EmptyResult

Threads == {"t1", "t2"}

NoOwner == "NoOwner"

Uids == {<< "a" >>, << "b" >>}

NotLoaded == << "not loaded" >>

IdleThread ==
    [pc |-> "idle", op |-> "none", uid |-> <<>>, usage |-> None, arr |-> <<>>,
     ok |-> FALSE, status |-> 0, called |-> FALSE, full |-> FALSE,
     added |-> FALSE, loaded |-> NotLoaded, sawBad |-> FALSE, remaining |-> 0]

UsageIdle ==
    /\ usageFile = [exists |-> FALSE, content |-> <<>>]
    /\ USAGE_LOCK = NoOwner
    /\ th = [t \in Threads |-> IdleThread]
    /\ charges = [u \in Uids |-> <<>>]

ClientIdle ==
    /\ session = [uid_email |-> <<>>, plus_consent |-> FALSE]
    /\ cookies = [th_uid |-> <<>>, plus_consent |-> <<>>]
    /\ consent = FALSE
    /\ httpReq = NoRequest
    /\ httpResp = [status |-> 0]

InitFS ==
    /\ clock = 1
    /\ AcIdle
    /\ UsageIdle
    /\ ClientIdle
    /\ wr = [pc |-> "idle", data |-> "", ino |-> 0, tmp |-> "", n |-> 0]
    /\ rd = [r \in Readers |-> IdleReader]
    /\ \/ /\ committed = NoFile
          /\ dir = [p \in FsPaths |-> 0]
          /\ inodes = [i \in Inodes |-> <<>>]
       \/ /\ committed = "d0"
          /\ dir = [p \in FsPaths |-> IF p = USAGE_DB THEN 1 ELSE 0]
          /\ inodes = [i \in Inodes |-> IF i = 1 THEN DumpJSON("d0") ELSE <<>>]

NextFS ==
    \/ \E d \in DataVals : save_json_open(d)
    \/ save_json_write
    \/ save_json_replace
    \/ \E r \in Readers : load_json_exists(r)
    \/ \E r \in Readers : load_json_open(r)
    \/ \E r \in Readers : load_json_read(r)
    \/ \E r \in Readers : load_json_parse(r)
    \/ \E r \in Readers : load_json_return(r)

SpecFS == InitFS /\ [][NextFS]_vars

\* C1: a load_json that runs concurrently with save_json on the same path
\* returns the whole content the path held at some moment of the call (the
\* content before the save, or the new one; the default only when the path
\* did not exist), never a partial content and never an error.
C1_AtomicReplace ==
    \A r \in Readers : rd[r].pc = "done" => rd[r].res \in rd[r].seen

\* a load_json completed across a save_json commit, with a stored content
C1_Witness ==
    \E r \in Readers :
        /\ rd[r].pc = "done"
        /\ Cardinality(rd[r].seen) = 2
        /\ rd[r].res \in DataVals \cup {"d0"}
        /\ wr.pc = "write" /\ Len(inodes[wr.ino]) \in 1..2


(***************************************************************************)
(* The autocomplete index file and its cache (SpecIndex)                   *)
(***************************************************************************)
MaxK == 2          \* largest k of a request

KSet == 0..MaxK

\* load_json(path, default) on a file nobody is writing
load_json(file, default) ==
    IF ~file.exists THEN default ELSE json_load_or_default(file.content, default)

\* a reload that happens only while nothing is cached
_load_ac_once(file, ac, mtime) ==
    IF ~file.exists \/ mtime # 0 THEN [ac |-> ac, mtime |-> mtime]
    ELSE [ac |-> load_json(file, None), mtime |-> file.mtime]

\* _load_ac_if_changed: the new values of _ac and _ac_mtime
_load_ac_if_changed(file, ac, mtime) ==
    IF ~file.exists THEN [ac |-> ac, mtime |-> mtime]
    ELSE IF file.mtime # mtime
         THEN [ac |-> load_json(file, None), mtime |-> file.mtime]
         ELSE [ac |-> ac, mtime |-> mtime]

IndexA ==
    Dict([prefix  |-> (<< "a" >> :> << "ab", "abc" >>),
          bigram  |-> (<< "a" >> :> << "x", "y" >>),
          trigram |-> (TrigramKey(<< "a" >>, << "a" >>) :> << "z" >>),
          phrases |-> << << "a", "b" >>, << "b", "a" >> >>])

IndexB ==
    Dict([prefix  |-> (<< "a" >> :> << "ac" >>),
          bigram  |-> (<< "a" >> :> << "y" >>),
          trigram |-> <<>>,
          phrases |-> << << "a", "c" >> >>])

\* what an index file may hold: an index, the empty dict, null, or a
\* document cut short
IndexContents ==
    {DumpJSON(IndexA), DumpJSON(IndexB), DumpJSON(Dict(<<>>)), NullDoc,
     << "{" >>, <<>>}

\* another program (the index builder) writes the index file
WriteIndex(content) ==
    /\ clock < MaxClock
    /\ clock' = clock + 1
    /\ acFile' = [exists |-> TRUE, mtime |-> clock', content |-> content]
    /\ UNCHANGED << fsVars, _ac, _ac_mtime, acReq, acResp, usageVars, clientVars >>

\* the index file is removed
DeleteIndex ==
    /\ acFile.exists
    /\ acFile' = AbsentFile
    /\ UNCHANGED << fsVars, clock, _ac, _ac_mtime, acReq, acResp, usageVars,
                    clientVars >>

\* a call suggest_words(prefix, context, k)
SuggestWords(prefix, context, k) ==
    /\ LET c == _load_ac_if_changed(acFile, _ac, _ac_mtime)
       IN  /\ _ac' = c.ac
           /\ _ac_mtime' = c.mtime
           /\ acResp' = suggest_words(c.ac, prefix, context, k)
    /\ acReq' = [op |-> "suggest_words", prefix |-> prefix, context |-> context,
                 k |-> k, doc |-> <<>>, file |-> acFile, cached |-> _ac,
                 cachedAt |-> _ac_mtime]
    /\ UNCHANGED << fsVars, clock, acFile, usageVars, clientVars >>

InitIndex ==
    /\ clock = 1
    /\ FsIdle
    /\ UsageIdle
    /\ ClientIdle
    /\ _ac = None
    /\ _ac_mtime = 0
    /\ acReq = NoRequest
    /\ acResp = EmptyResult
    /\ \/ acFile = AbsentFile
       \/ \E c \in IndexContents : acFile = [exists |-> TRUE, mtime |-> 1, content |-> c]

NextIndex ==
    \/ \E c \in IndexContents : WriteIndex(c)
    \/ DeleteIndex
    \/ \E prefix \in {<<>>, << "A" >>}, context \in {<<>>, << "a" >>, << "a", " ", "A" >>},
          k \in KSet : SuggestWords(prefix, context, k)

SpecIndex == InitIndex /\ [][NextIndex]_vars

\* C2: a suggest_words call made while the index file exists is answered
\* from the content the file holds at the call (its most recent rewrite),
\* whatever was cached before.
C2_AnsweredFromLatestContent ==
    (acReq.op = "suggest_words" /\ acReq.file.exists) =>
        acResp = suggest_words(json_load_or_default(acReq.file.content, None),
                               acReq.prefix, acReq.context, acReq.k)

\* a call that found the file rewritten since the cache was loaded, and
\* answered something the cached index would not have answered
C2_Witness ==
    /\ acReq.op = "suggest_words"
    /\ acReq.file.exists
    /\ acReq.cachedAt # 0
    /\ acReq.cachedAt # acReq.file.mtime
    /\ acResp # EmptyResult
    /\ acResp # suggest_words(acReq.cached, acReq.prefix, acReq.context, acReq.k)

\* C3: a suggest_words call made while the index file is absent returns
\* completions, next and phrases all empty.
C3_AbsentFileEmpty ==
    (acReq.op = "suggest_words" /\ ~acReq.file.exists) => acResp = EmptyResult


(***************************************************************************)
(* Lookups on a loaded index (SpecLookup)                                  *)
(***************************************************************************)
MaxList == 5       \* longest bigram list and phrase list of an index
MaxTri == 2        \* longest trigram list of an index

SeqUpTo(S, n) == UNION {[1..m -> S] : m \in 0..n}

\* indexes that differ in the next-word lists of the context "a b"
NextIndexes ==
    {Dict([prefix  |-> <<>>,
           bigram  |-> (<< "b" >> :> bi),
           trigram |-> (TrigramKey(<< "a" >>, << "b" >>) :> tri),
           phrases |-> <<>>]) :
        bi \in SeqUpTo({"x", "y"}, MaxList), tri \in SeqUpTo({"x", "z"}, MaxTri)}

\* indexes that differ in the phrase list
PhraseIndexes ==
    {Dict([prefix |-> <<>>, bigram |-> <<>>, trigram |-> <<>>, phrases |-> ph]) :
        ph \in SeqUpTo({<< "a", "b" >>, << "b", "a" >>, << "c", "a" >>}, MaxList)}

InitLookup ==
    /\ clock = 1
    /\ FsIdle
    /\ UsageIdle
    /\ ClientIdle
    /\ _ac = None
    /\ _ac_mtime = 0
    /\ acReq = NoRequest
    /\ acResp = EmptyResult
    /\ \E ix \in NextIndexes \cup PhraseIndexes :
          acFile = [exists |-> TRUE, mtime |-> 1, content |-> DumpJSON(ix)]

NextLookup ==
    \E prefix \in {<<>>, << "A" >>},
       context \in {<<>>, << "b" >>, << "a", " ", "B" >>},
       k \in KSet : SuggestWords(prefix, context, k)

SpecLookup == InitLookup /\ [][NextLookup]_vars

\* the index a call was answered from, when one is loaded
Answered == acReq.op = "suggest_words" /\ ~Falsy(_ac)

\* the claimed next list: trigram entries, then bigram entries taken from bi
ClaimedNext(tri, bi, k) ==
    IF Len(tri) >= k THEN Take(tri, k) ELSE Take(Distinct(tri \o bi), k)

\* C4 as stated: with two context tokens the next list is the first k
\* trigram entries, or, when there are fewer than k, the trigram entries
\* followed by the entries of bigram[w2] not yet present, cut to k; with one
\* context token it is the first k entries of bigram[w].
C4_NextAsStated ==
    Answered =>
        LET last2 == _last_tokens(acReq.context, 2)
        IN  /\ Len(last2) = 2 =>
                 acResp.next =
                    ClaimedNext(DictGet(_ac.items.trigram, TrigramKey(last2[1], last2[2]), <<>>),
                                DictGet(_ac.items.bigram, last2[2], <<>>), acReq.k)
            /\ Len(last2) = 1 =>
                 acResp.next = Take(DictGet(_ac.items.bigram, last2[1], <<>>), acReq.k)

\* C4 amended: the bigram entries blended in are those among the first 2k
\* entries of bigram[w2].
C4_NextAmended ==
    Answered =>
        LET last2 == _last_tokens(acReq.context, 2)
        IN  /\ Len(last2) = 2 =>
                 acResp.next =
                    ClaimedNext(DictGet(_ac.items.trigram, TrigramKey(last2[1], last2[2]), <<>>),
                                Take(DictGet(_ac.items.bigram, last2[2], <<>>), acReq.k * 2),
                                acReq.k)
            /\ Len(last2) = 1 =>
                 acResp.next = Take(DictGet(_ac.items.bigram, last2[1], <<>>), acReq.k)

\* a next list made of a trigram entry followed by a bigram-only entry,
\* with a bigram entry that repeats a trigram entry left out
C4_Witness ==
    /\ Answered
    /\ Len(_last_tokens(acReq.context, 2)) = 2
    /\ LET tri == DictGet(_ac.items.trigram, TrigramKey(<< "a" >>, << "b" >>), <<>>)
           bi  == DictGet(_ac.items.bigram, << "b" >>, <<>>)
       IN  /\ Len(tri) = 1
           /\ acReq.k = 2
           /\ Len(bi) >= 2
           /\ bi[1] = tri[1]
           /\ acResp.next = << tri[1], "y" >>

\* the claimed phrase list: prefix matches, then containing phrases from cont
ClaimedPhrases(starts, cont, k) ==
    IF Len(starts) >= k THEN Take(starts, k) ELSE Take(Distinct(starts \o cont), k)

\* C5 as stated: with a non-empty query the phrases list is the first k
\* phrases that start with it, or, when fewer than k do, those followed by
\* the phrases that contain it, none repeated, cut to k; empty for an empty
\* query.
C5_PhrasesAsStated ==
    Answered =>
        LET base == PhraseBase(Lower(acReq.prefix), _last_tokens(acReq.context, 2))
            starts == SelectSeq(_ac.items.phrases, LAMBDA p : StartsWith(p, base))
            cont == SelectSeq(_ac.items.phrases, LAMBDA p : Contains(p, base))
        IN  acResp.phrases =
                IF base = <<>> THEN <<>> ELSE ClaimedPhrases(starts, cont, acReq.k)

\* C5 amended: the containing phrases blended in are those among the first
\* 2k phrases of the index that contain the query.
C5_PhrasesAmended ==
    Answered =>
        LET base == PhraseBase(Lower(acReq.prefix), _last_tokens(acReq.context, 2))
            starts == SelectSeq(_ac.items.phrases, LAMBDA p : StartsWith(p, base))
            cont == SelectSeq(_ac.items.phrases, LAMBDA p : Contains(p, base))
        IN  acResp.phrases =
                IF base = <<>> THEN <<>>
                ELSE ClaimedPhrases(starts, Take(cont, acReq.k * 2), acReq.k)

\* a phrase list made of one prefix match followed by a containing-only
\* phrase that stands before it in the index
C5_Witness ==
    /\ Answered
    /\ acReq.prefix = << "A" >> /\ acReq.k = 2
    /\ _ac.items.phrases = << << "b", "a" >>, << "a", "b" >>, << "c", "a" >> >>
    /\ acResp.phrases = << << "a", "b" >>, << "b", "a" >> >>


(***************************************************************************)
(* The /ac endpoint (SpecAc)                                               *)
(***************************************************************************)
MaxDocLen == 3     \* longest document body of a request

DOC_LIMIT == 4000

\* any(base.values())
AnyValues(base) ==
    base.completions # <<>> \/ base.next # <<>> \/ base.phrases # <<>>

\* POST /ac with the JSON body {prefix, context, k, doc}
ac_api(prefix, context, k, doc) ==
    /\ LET c    == _load_ac_if_changed(acFile, _ac, _ac_mtime)
           d    == Take(doc, DOC_LIMIT)
           base == suggest_words(c.ac, prefix, context, k)
       IN  /\ _ac' = c.ac
           /\ _ac_mtime' = c.mtime
           /\ acResp' = IF ~AnyValues(base)
                        THEN IF d # <<>> THEN suggest_from_doc(prefix, context, d, k)
                             ELSE EmptyResult
                        ELSE base
    /\ acReq' = [op |-> "ac", prefix |-> prefix, context |-> context, k |-> k,
                 doc |-> doc, file |-> acFile, cached |-> _ac,
                 cachedAt |-> _ac_mtime]
    /\ UNCHANGED << fsVars, clock, acFile, usageVars, clientVars >>

Docs == SeqUpTo({"a", "b", " "}, MaxDocLen)

InitAc ==
    /\ clock = 1
    /\ FsIdle
    /\ UsageIdle
    /\ ClientIdle
    /\ _ac = None
    /\ _ac_mtime = 0
    /\ acReq = NoRequest
    /\ acResp = EmptyResult
    /\ \/ acFile = AbsentFile
       \/ acFile = [exists |-> TRUE, mtime |-> 1, content |-> DumpJSON(IndexA)]

NextAc ==
    \E prefix \in {<<>>, << "A" >>}, context \in {<<>>, << "a" >>}, k \in KSet,
       doc \in Docs : ac_api(prefix, context, k, doc)

SpecAc == InitAc /\ [][NextAc]_vars

\* C6: each of the three lists of an /ac response has at most k elements,
\* for every k >= 0, from the index lookup and from the document lookup.
C6_ListsCappedAtK ==
    acReq.op = "ac" =>
        /\ Len(acResp.completions) <= acReq.k
        /\ Len(acResp.next) <= acReq.k
        /\ Len(acResp.phrases) <= acReq.k


(***************************************************************************)
(* The usage store: _prune_and_get, get_usage, charge_one, and the free    *)
(* plan's path through /ask and /usage, one step per statement             *)
(***************************************************************************)
\* FREE_LIMIT and WINDOW_HOURS come from the environment; the clock of the
\* model ticks once an hour, so the window is WINDOW_HOURS ticks long.
FREE_LIMIT == 2

WINDOW_HOURS == 2

\* usage[key] = val
DictSet(d, key, val) ==
    Dict([x \in DOMAIN d.items \cup {key} |-> IF x = key THEN val ELSE d.items[x]])

\* [t for t in arr if now - t < window]
InWindow(arr, now) == SelectSeq(arr, LAMBDA ts : now - ts < WINDOW_HOURS)

\* _prune_and_get: arr = usage.get(uid, []), pruned
PrunedArr(usage, uid, now) == InWindow(DictGet(usage.items, uid, <<>>), now)

\* get_usage: remaining = max(FREE_LIMIT - len(arr), 0)
Remaining(arr) == IF FREE_LIMIT - Len(arr) > 0 THEN FREE_LIMIT - Len(arr) ELSE 0

Absent == << "absent" >>

\* the file holds something json.load rejects
Malformed(file) == file.exists /\ ~WellFormed(file.content)

\* a lock that never makes a thread wait
LockAlwaysFree(t) == TRUE

\* with USAGE_LOCK: the lock can be taken
LockFree(t) == USAGE_LOCK = NoOwner

\* POST /ask of a free-plan user: uid and plan are resolved
ask_free(t, uid) ==
    /\ th[t].pc = "idle"
    /\ th' = [th EXCEPT ![t] = [IdleThread EXCEPT !.pc = "c_lock", !.op = "ask",
                                                  !.uid = uid]]
    /\ UNCHANGED << fsVars, clock, acVars, usageFile, USAGE_LOCK, charges, clientVars >>

\* GET /usage of a free-plan user
usage_free(t, uid) ==
    /\ th[t].pc = "idle"
    /\ th' = [th EXCEPT ![t] = [IdleThread EXCEPT !.pc = "g_lock", !.op = "usage",
                                                  !.uid = uid, !.status = 200]]
    /\ UNCHANGED << fsVars, clock, acVars, usageFile, USAGE_LOCK, charges, clientVars >>

\* with USAGE_LOCK: (charge_one and get_usage)
lock_acquire(t) ==
    /\ th[t].pc \in {"c_lock", "g_lock"}
    /\ LockFree(t)
    /\ USAGE_LOCK' = t
    /\ th' = [th EXCEPT ![t].pc = IF @ = "c_lock" THEN "c_load" ELSE "g_load"]
    /\ UNCHANGED << fsVars, clock, acVars, usageFile, charges, clientVars >>

\* usage = load_json(USAGE_DB, {})
usage_load(t) ==
    /\ th[t].pc \in {"c_load", "g_load"}
    /\ th' = [th EXCEPT ![t] =
                [@ EXCEPT !.pc = IF @ = "c_load" THEN "c_prune" ELSE "g_prune",
                          !.usage = load_json(usageFile, Dict(<<>>)),
                          !.loaded = IF usageFile.exists THEN usageFile.content
                                     ELSE Absent,
                          !.sawBad = @ \/ Malformed(usageFile)]]
    /\ UNCHANGED << fsVars, clock, acVars, usageFile, USAGE_LOCK, charges, clientVars >>

\* the in-window charges of uid that charge_one has reported
ChargedInWindow(uid) == Len(InWindow(charges[uid], clock))

\* arr = _prune_and_get(usage, uid); get_usage leaves the lock after it and
\* returns the remaining credit (reset_at is not part of the model).
\* usage.get raises AttributeError when the file held null.
prune_and_get(t) ==
    /\ th[t].pc \in {"c_prune", "g_prune"}
    /\ IF th[t].usage.kind = "None"
       THEN /\ th' = [th EXCEPT ![t] = [@ EXCEPT !.pc = "done", !.status = 500,
                                                 !.usage = None]]
            /\ USAGE_LOCK' = NoOwner
            /\ usageFile' = usageFile
       ELSE LET arr   == PrunedArr(th[t].usage, th[t].uid, clock)
                usage == DictSet(th[t].usage, th[t].uid, arr)
            IN  /\ usageFile' = [exists |-> TRUE, content |-> DumpJSON(usage)]
                /\ IF th[t].pc = "c_prune"
                   THEN /\ th' = [th EXCEPT ![t] =
                                    [@ EXCEPT !.pc = "c_check", !.usage = usage,
                                              !.arr = arr, !.loaded = NotLoaded,
                                              !.full = ChargedInWindow(th[t].uid) >= FREE_LIMIT]]
                        /\ USAGE_LOCK' = USAGE_LOCK
                   ELSE /\ th' = [th EXCEPT ![t] =
                                    [@ EXCEPT !.pc = "done", !.usage = None,
                                              !.loaded = NotLoaded,
                                              !.remaining = Remaining(arr)]]
                        /\ USAGE_LOCK' = NoOwner
    /\ UNCHANGED << fsVars, clock, acVars, charges, clientVars >>

\* charge_one: if len(arr) >= FREE_LIMIT: return False, ...
charge_check(t) ==
    /\ th[t].pc = "c_check"
    /\ IF Len(th[t].arr) >= FREE_LIMIT
       THEN /\ th' = [th EXCEPT ![t] = [@ EXCEPT !.pc = "ask_route", !.ok = FALSE,
                                                 !.usage = None, !.arr = <<>>]]
            /\ USAGE_LOCK' = NoOwner
       ELSE /\ th' = [th EXCEPT ![t].pc = "c_append"]
            /\ USAGE_LOCK' = USAGE_LOCK
    /\ UNCHANGED << fsVars, clock, acVars, usageFile, charges, clientVars >>

\* charge_one: arr.append(now_sec()); usage[uid] = arr; save_json; return True
charge_append(t) ==
    /\ th[t].pc = "c_append"
    /\ LET arr   == Append(th[t].arr, clock)
           usage == DictSet(th[t].usage, th[t].uid, arr)
       IN  /\ usageFile' = [exists |-> TRUE, content |-> DumpJSON(usage)]
           /\ th' = [th EXCEPT ![t] = [@ EXCEPT !.pc = "ask_route", !.ok = TRUE,
                                                !.added = TRUE, !.usage = None,
                                                !.arr = <<>>]]
    /\ charges' = [charges EXCEPT ![th[t].uid] = Append(@, clock)]
    /\ USAGE_LOCK' = NoOwner
    /\ UNCHANGED << fsVars, clock, acVars, clientVars >>

\* ask: 429 when charge_one refused, else call_ollama; both then get_usage
ask_route(t) ==
    /\ th[t].pc = "ask_route"
    /\ th' = [th EXCEPT ![t] =
                IF ~th[t].ok THEN [@ EXCEPT !.pc = "g_lock", !.status = 429]
                ELSE [@ EXCEPT !.pc = "g_lock", !.status = 200, !.called = TRUE]]
    /\ UNCHANGED << fsVars, clock, acVars, usageFile, USAGE_LOCK, charges, clientVars >>

\* the response is sent; the thread serves the next request
respond(t) ==
    /\ th[t].pc = "done"
    /\ th' = [th EXCEPT ![t] = IdleThread]
    /\ UNCHANGED << fsVars, clock, acVars, usageFile, USAGE_LOCK, charges, clientVars >>

\* time passes; charges keeps the reported charges still inside the window
Tick ==
    /\ clock < MaxClock
    /\ clock' = clock + 1
    /\ charges' = [u \in Uids |-> InWindow(charges[u], clock')]
    /\ UNCHANGED << fsVars, acVars, usageFile, USAGE_LOCK, th, clientVars >>

InitUsage ==
    /\ clock = 1
    /\ FsIdle
    /\ AcIdle
    /\ UsageIdle
    /\ ClientIdle

NextUsage ==
    \/ \E t \in Threads, u \in Uids : ask_free(t, u)
    \/ \E t \in Threads, u \in Uids : usage_free(t, u)
    \/ \E t \in Threads : lock_acquire(t)
    \/ \E t \in Threads : usage_load(t)
    \/ \E t \in Threads : prune_and_get(t)
    \/ \E t \in Threads : charge_check(t)
    \/ \E t \in Threads : charge_append(t)
    \/ \E t \in Threads : ask_route(t)
    \/ \E t \in Threads : respond(t)
    \/ Tick

SpecUsage == InitUsage /\ [][NextUsage]_vars

\* the list the usage file holds for uid
Stored(uid) ==
    LET u == load_json(usageFile, Dict(<<>>))
    IN  IF u.kind = "dict" THEN DictGet(u.items, uid, <<>>) ELSE <<>>

\* C8 (no lost update): every charge charge_one reported, and still inside
\* the window, is in the usage file.
C8_NoLostCharge ==
    \A u \in Uids : \A i \in 1..Len(charges[u]) :
        clock - charges[u][i] < WINDOW_HOURS =>
            Count(charges[u][i], Stored(u)) >= Count(charges[u][i], charges[u])

\* C8 (limit): at every moment, the window that ends now holds at most
\* FREE_LIMIT reported charges of any one uid.
C8_LimitPerWindow ==
    \A u \in Uids : ChargedInWindow(u) <= FREE_LIMIT

\* C8 (429): an ask that finds FREE_LIMIT in-window charges is answered 429,
\* without a backend call and without a charge; any other ask is charged.
C8_RefusedWhenFull ==
    \A t \in Threads :
        (th[t].pc = "done" /\ th[t].op = "ask") =>
            /\ th[t].full <=> th[t].status = 429
            /\ th[t].status = 429 => ~th[t].called /\ ~th[t].added
            /\ th[t].status = 200 => th[t].called /\ th[t].added

\* C8: under any interleaving of ask, charge_one and get_usage no update of
\* the usage store is lost, no uid gets more than FREE_LIMIT charges inside
\* one window, and a free ask at the limit is answered 429 with no backend
\* call and no charge.
C8_UsageStoreConsistent ==
    C8_NoLostCharge /\ C8_LimitPerWindow /\ C8_RefusedWhenFull

\* an ask refused with 429 while the other thread is inside charge_one for
\* the same uid
C8_Witness ==
    \E t, o \in Threads :
        /\ t # o
        /\ th[t].pc = "done" /\ th[t].op = "ask" /\ th[t].status = 429
        /\ th[o].pc \in {"c_lock", "c_load", "c_prune", "c_check"}
        /\ th[o].uid = th[t].uid
        /\ Len(Stored(th[t].uid)) = FREE_LIMIT


(***************************************************************************)
(* Damaged files (SpecCorrupt): one request thread, and other programs     *)
(* that overwrite the usage file and the index file                        *)
(***************************************************************************)
\* what a damaged file may hold: documents cut short, or the document null
DamagedContents == {<<>>, << "{" >>, NullDoc}

\* the usage file is overwritten from outside the program; the charges
\* reported so far are gone with it
CorruptUsage(content) ==
    /\ usageFile' = [exists |-> TRUE, content |-> content]
    /\ charges' = [u \in Uids |-> <<>>]
    /\ UNCHANGED << fsVars, clock, acVars, USAGE_LOCK, th, clientVars >>

InitCorrupt ==
    /\ clock = 1
    /\ FsIdle
    /\ AcIdle
    /\ UsageIdle
    /\ ClientIdle

NextCorrupt ==
    \/ ask_free("t1", << "a" >>)
    \/ usage_free("t1", << "a" >>)
    \/ lock_acquire("t1")
    \/ usage_load("t1")
    \/ prune_and_get("t1")
    \/ charge_check("t1")
    \/ charge_append("t1")
    \/ ask_route("t1")
    \/ respond("t1")
    \/ \E c \in DamagedContents : CorruptUsage(c)
    \/ \E c \in {DumpJSON(IndexA), << "{" >>} : WriteIndex(c)
    \/ SuggestWords(<< "A" >>, << "a" >>, 1)

SpecCorrupt == InitCorrupt /\ [][NextCorrupt]_vars

\* C7: a malformed usage file or index file loads as the caller's default
\* ({} for the usage store, None for the index), and no request fails
\* because of it: get_usage and charge_one go on with an empty store,
\* suggest_words answers empty lists.
C7_MalformedLoadsDefault ==
    /\ \A t \in Threads :
          /\ (th[t].pc \in {"c_prune", "g_prune"} /\ th[t].sawBad
                /\ ~WellFormed(th[t].loaded)) =>
                    (th[t].usage.kind = "dict" /\ DOMAIN th[t].usage.items = {})
          /\ th[t].status = 500 => WellFormed(th[t].loaded)
    /\ (acReq.op = "suggest_words" /\ Malformed(acReq.file)) =>
          (_ac.kind = "None" /\ acResp = EmptyResult)

\* an ask that loaded a malformed usage file and was charged and answered,
\* and a lookup answered from a malformed index file
C7_Witness ==
    /\ th["t1"].pc = "done" /\ th["t1"].op = "ask" /\ th["t1"].sawBad
    /\ th["t1"].status = 200 /\ th["t1"].added
    /\ acReq.op = "suggest_words" /\ Malformed(acReq.file)


(***************************************************************************)
(* One client's requests, one at a time (SpecClient): uid resolution, the  *)
(* PLUS consent, and /ask                                                  *)
(***************************************************************************)
\* the server's configuration (environment variables)
ADMIN_USERS == {<< "b" >>}

PLUS_KEY == << "k" >>

REMOTE_ADDR == << "i", "p" >>

\* what a request may carry in X-User and in X-Plus-Key
XUsers == {<<>>, << " " >>, << "B", " " >>}

PlusKeys == {<<>>, << "k" >>, << "x" >>}

\* uid_from_request: session e-mail, X-User header, th_uid cookie, remote IP
uid_from_request(sess, cook, xuser) ==
    IF sess.uid_email # <<>> THEN Lower(sess.uid_email)
    ELSE IF Lower(Strip(xuser)) # <<>> THEN Lower(Strip(xuser))
         ELSE IF cook.th_uid # <<>> THEN cook.th_uid
              ELSE Lower(REMOTE_ADDR)

is_plus_user(uid, key) ==
    \/ uid # <<>> /\ uid \in ADMIN_USERS
    \/ PLUS_KEY # <<>> /\ key # <<>> /\ key = PLUS_KEY

\* has_plus_consent: the answer, and the session it leaves
has_plus_consent(sess, cook) ==
    IF sess.plus_consent THEN [answer |-> TRUE, session |-> sess]
    ELSE IF cook.plus_consent = << "1" >>
         THEN [answer |-> TRUE, session |-> [sess EXCEPT !.plus_consent = TRUE]]
         ELSE [answer |-> FALSE, session |-> sess]

\* a /plus/consent that leaves the cookie in place when agree is false
consent_cookie_kept(agree, cook) ==
    IF agree THEN [cook EXCEPT !.plus_consent = << "1" >>] ELSE cook

\* plus_consent: resp.set_cookie(CONSENT_COOKIE, "1") / resp.delete_cookie
consent_cookie(agree, cook) ==
    [cook EXCEPT !.plus_consent = IF agree THEN << "1" >> ELSE <<>>]

\* charge_one(uid) as a whole, under the lock: [ok, usage]
charge_one(file, uid, now) ==
    LET usage == load_json(file, Dict(<<>>))
        arr   == PrunedArr(usage, uid, now)
    IN  IF Len(arr) >= FREE_LIMIT
        THEN [ok |-> FALSE, usage |-> DictSet(usage, uid, arr)]
        ELSE [ok |-> TRUE, usage |-> DictSet(usage, uid, Append(arr, now))]

\* get_usage(uid) as a whole, under the lock: the store it saves
get_usage(file, uid, now) ==
    LET usage == load_json(file, Dict(<<>>))
    IN  DictSet(usage, uid, PrunedArr(usage, uid, now))

\* the number of charges a usage file holds, over all uids
RECURSIVE SumLen(_, _)
SumLen(items, keys) ==
    IF keys = {} THEN 0
    ELSE LET k == CHOOSE x \in keys : TRUE
         IN  Len(items[k]) + SumLen(items, keys \ {k})

TotalStored(file) ==
    LET u == load_json(file, Dict(<<>>)) IN SumLen(u.items, DOMAIN u.items)

SavedFile(usage) == [exists |-> TRUE, content |-> DumpJSON(usage)]

\* GET /: the page sets the th_uid cookie (uuid4().hex) when there is none
index_page ==
    /\ cookies.th_uid = <<>>
    /\ cookies' = [cookies EXCEPT !.th_uid = << "c" >>]
    /\ httpReq' = [op |-> "index"]
    /\ httpResp' = [status |-> 200]
    /\ UNCHANGED << fsVars, clock, acVars, usageVars, session, consent >>

\* GET /auth/google/callback after a successful sign-in with email
google_callback(email) ==
    /\ session.uid_email = <<>>
    /\ session' = [session EXCEPT !.uid_email = Lower(email)]
    /\ cookies' = IF cookies.th_uid = <<>>
                  THEN [cookies EXCEPT !.th_uid = Lower(email)] ELSE cookies
    /\ httpReq' = [op |-> "google_callback"]
    /\ httpResp' = [status |-> 302]
    /\ UNCHANGED << fsVars, clock, acVars, usageVars, consent >>

\* POST /plus/consent {agree}
plus_consent(agree) ==
    /\ session' = [session EXCEPT !.plus_consent = agree]
    /\ cookies' = consent_cookie(agree, cookies)
    /\ consent' = agree
    /\ httpReq' = [op |-> "plus_consent"]
    /\ httpResp' = [status |-> 200]
    /\ UNCHANGED << fsVars, clock, acVars, usageVars >>

\* GET /plus/status
plus_status(xuser, key) ==
    /\ LET uid == uid_from_request(session, cookies, xuser)
           c   == has_plus_consent(session, cookies)
       IN  /\ session' = c.session
           /\ httpResp' = [status |-> 200, uid |-> uid,
                           plan |-> IF is_plus_user(uid, key) THEN "plus" ELSE "free",
                           backend |-> "none", consent |-> c.answer]
    /\ httpReq' = [op |-> "plus_status", xuser |-> xuser,
                   uid_email |-> session.uid_email, th_uid |-> cookies.th_uid,
                   consent |-> consent, stored |-> TotalStored(usageFile)]
    /\ UNCHANGED << fsVars, clock, acVars, usageVars, cookies, consent >>

\* POST /ask
ask(xuser, key) ==
    /\ LET uid  == uid_from_request(session, cookies, xuser)
           plan == IF is_plus_user(uid, key) THEN "plus" ELSE "free"
           c    == has_plus_consent(session, cookies)
           ch   == charge_one(usageFile, uid, clock)
       IN  IF plan = "plus"
           THEN /\ session' = c.session
                /\ IF ~c.answer
                   THEN /\ httpResp' = [status |-> 403, uid |-> uid, plan |-> plan,
                                        backend |-> "none", consent |-> FALSE]
                        /\ usageFile' = usageFile
                   ELSE /\ httpResp' = [status |-> 200, uid |-> uid, plan |-> plan,
                                        backend |-> "call_openai", consent |-> TRUE]
                        /\ usageFile' = SavedFile(get_usage(usageFile, uid, clock))
           ELSE /\ session' = session
                /\ usageFile' =
                      SavedFile(get_usage(SavedFile(ch.usage), uid, clock))
                /\ httpResp' = [status |-> IF ch.ok THEN 200 ELSE 429, uid |-> uid,
                                plan |-> plan,
                                backend |-> IF ch.ok THEN "call_ollama" ELSE "none",
                                consent |-> FALSE]
    /\ httpReq' = [op |-> "ask", xuser |-> xuser,
                   uid_email |-> session.uid_email, th_uid |-> cookies.th_uid,
                   consent |-> consent, stored |-> TotalStored(usageFile)]
    /\ UNCHANGED << fsVars, clock, acVars, USAGE_LOCK, th, charges, cookies, consent >>

\* the browser is closed: the session cookie goes, the other cookies stay
browser_restart ==
    /\ session # [uid_email |-> <<>>, plus_consent |-> FALSE]
    /\ session' = [uid_email |-> <<>>, plus_consent |-> FALSE]
    /\ UNCHANGED << fsVars, clock, acVars, usageVars, cookies, consent, httpReq,
                    httpResp >>

InitClient ==
    /\ clock = 1
    /\ FsIdle
    /\ AcIdle
    /\ UsageIdle
    /\ ClientIdle

NextClient ==
    \/ index_page
    \/ google_callback(<< "A" >>)
    \/ \E agree \in BOOLEAN : plus_consent(agree)
    \/ \E xuser \in XUsers, key \in PlusKeys : plus_status(xuser, key)
    \/ \E xuser \in XUsers, key \in PlusKeys : ask(xuser, key)
    \/ browser_restart

SpecClient == InitClient /\ [][NextClient]_vars


\* C9: a PLUS /ask reaches the backend only if the client's latest
\* /plus/consent said agree; without it the answer is 403 and no backend is
\* called; and a PLUS /ask adds no charge to the usage store.
C9_PlusNeedsConsent ==
    (httpReq.op = "ask" /\ httpResp.plan = "plus") =>
        /\ httpResp.backend # "none" => httpReq.consent
        /\ ~httpReq.consent => httpResp.status = 403 /\ httpResp.backend = "none"
        /\ TotalStored(usageFile) = httpReq.stored

\* a PLUS /ask refused with 403: the client is not signed in, has the
\* th_uid cookie and charges in the store from free asks, and no consent
C9_Witness ==
    /\ httpReq.op = "ask" /\ httpResp.plan = "plus" /\ httpResp.status = 403
    /\ ~httpReq.consent
    /\ httpReq.uid_email = <<>>
    /\ httpReq.th_uid # <<>>
    /\ httpReq.stored > 0

\* the first present of: session e-mail, th_uid cookie, X-User header, IP
ClaimedUid(email, th_uid, xuser) ==
    IF email # <<>> THEN Lower(email)
    ELSE IF th_uid # <<>> THEN th_uid
         ELSE IF Lower(Strip(xuser)) # <<>> THEN Lower(Strip(xuser))
              ELSE Lower(REMOTE_ADDR)

\* C10: the uid of a request is taken from the first present of the session
\* e-mail, the th_uid cookie, the X-User header and the remote IP, in that
\* order.
C10_UidPriority ==
    httpReq.op \in {"ask", "plus_status"} =>
        httpResp.uid = ClaimedUid(httpReq.uid_email, httpReq.th_uid, httpReq.xuser)

=============================================================================
